---------------------------- MODULE Spec2Model ----------------------------
(***************************************************************************)
(* A model of the binary serialization framework of sc2-map-dependencies   *)
(* (src/main.py, src/structures/fields.py): the field descriptors, the     *)
(* Serializer that walks them, and the DocumentHeaderSerializer schema.    *)
(*                                                                         *)
(* Bytes are sequences of integers 0..255; text is a sequence of Unicode   *)
(* code points; a python list is a sequence; a python dict is a function   *)
(* from names to values.                                                   *)
(*                                                                         *)
(* A deserialize returns  [ok |-> TRUE, value, n, short]  where n is the   *)
(* consumed length the code reports and short records whether some slice   *)
(* data[:length] delivered fewer than length bytes (python slicing does    *)
(* not fail), or [ok |-> FALSE, err] when the code raises.  A serialize    *)
(* returns [ok |-> TRUE, bytes] or [ok |-> FALSE, err].                    *)
(***************************************************************************)
EXTENDS Integers, Sequences, FiniteSets, TLC

\* ------------------------------------------------------------------ bounds

\* Longest raw buffer handed to a single field.
MaxLen == 6

\* Longest text value handed to a string field's serialize.
MaxStr == 2

\* ------------------------------------------------------------ python helpers

Min(a, b) == IF a < b THEN a ELSE b

\* s[:n]
Take(s, n) == SubSeq(s, 1, Min(n, Len(s)))

\* s[n:]
Drop(s, n) == SubSeq(s, Min(n, Len(s)) + 1, Len(s))

\* s[::-1]
Reversed(s) == [i \in 1..Len(s) |-> s[Len(s) + 1 - i]]

Ok(v, n, short) == [ok |-> TRUE, value |-> v, n |-> n, short |-> short]

Bytes(b) == [ok |-> TRUE, bytes |-> b]

Raise(e) == [ok |-> FALSE, err |-> e]

\* All sequences over S of length at most n.
SeqsUpTo(S, n) == UNION {[1..k -> S] : k \in 0..n}

\* ------------------------------------------------------------------- cp437

\* The code points of bytes 128..255 under python's cp437 codec; bytes
\* 0..127 decode to the code point of the same number.
CP437High ==
  << 199, 252, 233, 226, 228, 224, 229, 231, 234, 235, 232, 239, 238, 236, 196, 197,
     201, 230, 198, 244, 246, 242, 251, 249, 255, 214, 220, 162, 163, 165, 8359, 402,
     225, 237, 243, 250, 241, 209, 170, 186, 191, 8976, 172, 189, 188, 161, 171, 187,
     9617, 9618, 9619, 9474, 9508, 9569, 9570, 9558, 9557, 9571, 9553, 9559, 9565, 9564, 9563, 9488,
     9492, 9524, 9516, 9500, 9472, 9532, 9566, 9567, 9562, 9556, 9577, 9574, 9568, 9552, 9580, 9575,
     9576, 9572, 9573, 9561, 9560, 9554, 9555, 9579, 9578, 9496, 9484, 9608, 9604, 9612, 9616, 9600,
     945, 223, 915, 960, 931, 963, 181, 964, 934, 920, 937, 948, 8734, 966, 949, 8745,
     8801, 177, 8805, 8804, 8992, 8993, 247, 8776, 176, 8729, 183, 8730, 8319, 178, 9632, 160 >>

\* bytes.decode(STRING_CODEC): every byte has a code point.
Decode437(mbs) ==
  [i \in 1..Len(mbs) |-> IF mbs[i] < 128 THEN mbs[i] ELSE CP437High[mbs[i] - 127]]

Encodable437(c) == c < 128 \/ \E j \in 1..128 : CP437High[j] = c

EncodeChar437(c) ==
  IF c < 128 THEN c ELSE 127 + (CHOOSE j \in 1..128 : CP437High[j] = c)

\* str.encode(STRING_CODEC): raises on a character outside the code page.
Encode437(s) ==
  IF \A i \in 1..Len(s) : Encodable437(s[i])
  THEN Bytes([i \in 1..Len(s) |-> EncodeChar437(s[i])])
  ELSE Raise("UnicodeEncodeError")

\* --------------------------------------------------------- primitive fields

RECURSIVE FromBytes(_)
\* int.from_bytes(b, byteorder='little', signed=False)
FromBytes(b) == IF b = <<>> THEN 0 ELSE b[1] + 256 * FromBytes(Tail(b))

RECURSIVE ToBytes(_, _)
\* int.to_bytes(length, byteorder='little', signed=False)
ToBytes(v, length) ==
  IF v < 0 THEN Raise("OverflowError")
  ELSE IF length = 0 THEN (IF v = 0 THEN Bytes(<<>>) ELSE Raise("OverflowError"))
  ELSE LET rest == ToBytes(v \div 256, length - 1)
       IN  IF rest.ok THEN Bytes(<<v % 256>> \o rest.bytes) ELSE rest

ByteArrayField_deserialize(length, data) ==
  Ok(Take(data, length), length, Len(data) < length)

ByteArrayField_serialize(length, obj) == Bytes(Take(obj, length))

UInt16Field_deserialize(length, data) ==
  Ok(FromBytes(Take(data, length)), length, Len(data) < length)

\* Mutant: the bytes are written most significant first.
UInt16Field_serializeBigEndian(length, obj) ==
  LET r == ToBytes(obj, length) IN IF r.ok THEN Bytes(Reversed(r.bytes)) ELSE r

UInt16Field_serialize(length, obj) == ToBytes(obj, length)

\* ------------------------------------------------------------ string fields

\* The index of the first zero byte of data, 0 when there is none.
FirstZero(data) ==
  IF \E i \in 1..Len(data) : data[i] = 0
  THEN CHOOSE i \in 1..Len(data) : data[i] = 0 /\ \A j \in 1..(i - 1) : data[j] # 0
  ELSE 0

\* mbs, _ = data.split(b'\0', 1) raises ValueError when data holds no zero.
ZStringField_deserialize(data) ==
  IF FirstZero(data) = 0 THEN Raise("ValueError")
  ELSE LET mbs == Take(data, FirstZero(data) - 1)
       IN  Ok(Decode437(mbs), Len(mbs) + 1, FALSE)

ZStringField_serialize(obj) ==
  LET e == Encode437(obj) IN IF e.ok THEN Bytes(e.bytes \o <<0>>) ELSE e

DynamicStringField_deserialize(length, data) ==
  LET mbs == Take(data, length)
  IN  Ok(Decode437(mbs), Len(mbs), Len(data) < length)

DynamicStringField_serialize(obj) == Encode437(obj)

ReverseFixedStringField_deserialize(length, data) ==
  LET r == DynamicStringField_deserialize(length, data)
  IN  Ok(Reversed(r.value), r.n, r.short)

\* Mutant: the text is written without being reversed.
ReverseFixedStringField_serializeUnreversed(obj) == DynamicStringField_serialize(obj)

ReverseFixedStringField_serialize(obj) == DynamicStringField_serialize(Reversed(obj))

\* ---------------------------------------------------------- field descriptors

\* A descriptor is a record: kind, the attributes its constructor stores, and
\* validator (<<>> when the field has none, else the magic it compares with).
ByteArrayField(length, validator) ==
  [kind |-> "ByteArrayField", length |-> length, validator |-> validator]

UInt16Field == [kind |-> "UInt16Field", length |-> 2, validator |-> <<>>]

UInt32Field == [kind |-> "UInt16Field", length |-> 4, validator |-> <<>>]

ZStringField == [kind |-> "ZStringField", validator |-> <<>>]

DynamicStringField == [kind |-> "DynamicStringField", length |-> 0, validator |-> <<>>]

ReverseFixedStringField(length) ==
  [kind |-> "ReverseFixedStringField", length |-> length, validator |-> <<>>]

DynamicListField(element_field) ==
  [kind |-> "DynamicListField", length |-> 0, element_field |-> element_field,
   validator |-> <<>>]

EncodedLengthField(length_field, element_field) ==
  [kind |-> "EncodedLengthField", length_field |-> length_field,
   element_field |-> element_field, validator |-> <<>>]

SerializerField(serializer) ==
  [kind |-> "SerializerField", serializer |-> serializer, validator |-> <<>>]

\* Field.validate with file_magic_validator: "ValidationError" when the
\* validator rejects the value, "None" otherwise.
Field_validate(f, value) ==
  IF f.validator # <<>> /\ value # f.validator THEN "ValidationError" ELSE "None"

\* --------------------------------------------------------- composite fields

RECURSIVE Field_deserialize(_, _)
RECURSIVE Field_serialize(_, _)

RECURSIVE ListLoop(_, _, _, _, _, _)
\* The for loop of DynamicListField.deserialize with k iterations left.
ListLoop(element_field, k, data, offset, elements, short) ==
  IF k <= 0 THEN Ok(elements, offset, short)
  ELSE LET r == Field_deserialize(element_field, Drop(data, offset))
       IN  IF ~r.ok THEN r
           ELSE ListLoop(element_field, k - 1, data, offset + r.n,
                         Append(elements, r.value), short \/ r.short)

DynamicListField_deserialize(f, data) ==
  ListLoop(f.element_field, f.length, data, 0, <<>>, FALSE)

RECURSIVE DynamicListField_serialize(_, _)
DynamicListField_serialize(f, obj) ==
  IF obj = <<>> THEN Bytes(<<>>)
  ELSE LET h == Field_serialize(f.element_field, Head(obj))
       IN  IF ~h.ok THEN h
           ELSE LET t == DynamicListField_serialize(f, Tail(obj))
                IN  IF t.ok THEN Bytes(h.bytes \o t.bytes) ELSE t

EncodedLengthField_deserialize(f, data) ==
  LET p == Field_deserialize(f.length_field, data)
  IN  IF ~p.ok THEN p
      ELSE LET ef == [f.element_field EXCEPT !.length = p.value]
               e  == Field_deserialize(ef, Drop(data, p.n))
           IN  IF ~e.ok THEN e ELSE Ok(e.value, p.n + e.n, p.short \/ e.short)

EncodedLengthField_serialize(f, obj) ==
  LET p == Field_serialize(f.length_field, Len(obj))
  IN  IF ~p.ok THEN p
      ELSE LET e == Field_serialize(f.element_field, obj)
           IN  IF e.ok THEN Bytes(p.bytes \o e.bytes) ELSE e

\* ------------------------------------------------------------------ Serializer

\* A serializer's fields: a sequence of [name, field] in declaration order,
\* as SerializerMeta._get_fields collects them from the class body.
RECURSIVE DeserializeLoop(_, _, _, _, _, _)
DeserializeLoop(fields, i, data, offset, attrs, short) ==
  IF i > Len(fields) THEN Ok(attrs, offset, short)
  ELSE LET r == Field_deserialize(fields[i].field, Drop(data, offset))
       IN  IF ~r.ok THEN r
           ELSE DeserializeLoop(fields, i + 1, data, offset + r.n,
                                attrs @@ (fields[i].name :> r.value), short \/ r.short)

Serializer_deserialize(fields, data) ==
  DeserializeLoop(fields, 1, data, 0, <<>>, FALSE)

RECURSIVE SerializeLoop(_, _, _)
SerializeLoop(fields, i, attrs) ==
  IF i > Len(fields) THEN Bytes(<<>>)
  ELSE IF fields[i].name \notin DOMAIN attrs THEN Raise("KeyError")
  ELSE LET h == Field_serialize(fields[i].field, attrs[fields[i].name])
       IN  IF ~h.ok THEN h
           ELSE LET t == SerializeLoop(fields, i + 1, attrs)
                IN  IF t.ok THEN Bytes(h.bytes \o t.bytes) ELSE t

Serializer_serialize(fields, attrs) == SerializeLoop(fields, 1, attrs)

Field_deserialize(f, data) ==
  CASE f.kind = "ByteArrayField" -> ByteArrayField_deserialize(f.length, data)
    [] f.kind = "UInt16Field" -> UInt16Field_deserialize(f.length, data)
    [] f.kind = "ZStringField" -> ZStringField_deserialize(data)
    [] f.kind = "DynamicStringField" -> DynamicStringField_deserialize(f.length, data)
    [] f.kind = "ReverseFixedStringField" ->
         ReverseFixedStringField_deserialize(f.length, data)
    [] f.kind = "DynamicListField" -> DynamicListField_deserialize(f, data)
    [] f.kind = "EncodedLengthField" -> EncodedLengthField_deserialize(f, data)
    [] f.kind = "SerializerField" -> Serializer_deserialize(f.serializer, data)

Field_serialize(f, obj) ==
  CASE f.kind = "ByteArrayField" -> ByteArrayField_serialize(f.length, obj)
    [] f.kind = "UInt16Field" -> UInt16Field_serialize(f.length, obj)
    [] f.kind = "ZStringField" -> ZStringField_serialize(obj)
    [] f.kind = "DynamicStringField" -> DynamicStringField_serialize(obj)
    [] f.kind = "ReverseFixedStringField" -> ReverseFixedStringField_serialize(obj)
    [] f.kind = "DynamicListField" -> DynamicListField_serialize(f, obj)
    [] f.kind = "EncodedLengthField" -> EncodedLengthField_serialize(f, obj)
    [] f.kind = "SerializerField" -> Serializer_serialize(f.serializer, obj)

\* ------------------------------------------------------------------- schemas

DocumentHeaderAttributeSerializer ==
  << [name |-> "key", field |-> EncodedLengthField(UInt16Field, DynamicStringField)],
     [name |-> "locale", field |-> ReverseFixedStringField(4)],
     [name |-> "value", field |-> EncodedLengthField(UInt16Field, DynamicStringField)] >>

\* b'H2CS'
MapMagic == <<72, 50, 67, 83>>

\* b'2S\0\0'
GameMagic == <<50, 83, 0, 0>>

DocumentHeaderSerializer ==
  << [name |-> "map_magic", field |-> ByteArrayField(4, MapMagic)],
     [name |-> "unk1", field |-> ByteArrayField(4, <<>>)],
     [name |-> "game_magic", field |-> ByteArrayField(4, GameMagic)],
     [name |-> "unk2", field |-> ByteArrayField(4, <<>>)],
     [name |-> "unk3", field |-> ByteArrayField(8, <<>>)],
     [name |-> "unk4", field |-> ByteArrayField(20, <<>>)],
     [name |-> "dependencies",
      field |-> EncodedLengthField(UInt32Field, DynamicListField(ZStringField))],
     [name |-> "attribs",
      field |-> EncodedLengthField(UInt32Field,
                  DynamicListField(SerializerField(DocumentHeaderAttributeSerializer)))] >>

\* ------------------------------------------------------- the fields under test

\* The field instances the schemas are built from, by name.
FieldNames ==
  {"ByteArrayField", "UInt16Field", "UInt32Field", "ZStringField",
   "ReverseFixedStringField", "EncodedString", "EncodedList",
   "AttributeRecord", "DocumentHeader"}

FieldOf(name) ==
  CASE name = "ByteArrayField" -> ByteArrayField(4, MapMagic)
    [] name = "UInt16Field" -> UInt16Field
    [] name = "UInt32Field" -> UInt32Field
    [] name = "ZStringField" -> ZStringField
    [] name = "ReverseFixedStringField" -> ReverseFixedStringField(4)
    [] name = "EncodedString" -> EncodedLengthField(UInt16Field, DynamicStringField)
    [] name = "EncodedList" ->
         EncodedLengthField(UInt32Field, DynamicListField(ZStringField))
    [] name = "AttributeRecord" -> SerializerField(DocumentHeaderAttributeSerializer)
    [] name = "DocumentHeader" -> SerializerField(DocumentHeaderSerializer)

\* ------------------------------------------------------------------- inputs

\* Raw bytes: zero (terminator, empty count), small counts, a byte of the
\* upper half of the code page.
Alphabet == {0, 1, 2, 128}

Prefixes(b) == {Take(b, n) : n \in 0..Len(b)}

\* A 4-byte little-endian count below 2^31 (the integers of the checker).
SmallCount(d) == Len(d) < 4 \/ d[4] < 128

RawBuffers == SeqsUpTo(Alphabet, MaxLen)

\* key "map", locale "enUS" stored reversed, value "test".
AttrMap == <<3, 0, 109, 97, 112>> \o <<83, 85, 110, 101>> \o <<4, 0, 116, 101, 115, 116>>

\* key <<128>>, locale bytes EU\0\0, empty value.
AttrHigh == <<1, 0, 128>> \o <<69, 85, 0, 0>> \o <<0, 0>>

HeaderFixed(map_magic, game_magic) ==
  map_magic \o <<8, 0, 0, 0>> \o game_magic \o <<8, 0, 0, 0>>
    \o <<225, 56, 1, 0, 225, 56, 1, 0>> \o [i \in 1..20 |-> 0]

\* Two dependencies "a", "bc"; the two attributes above.
HeaderTail ==
  <<2, 0, 0, 0>> \o <<97, 0>> \o <<98, 99, 0>> \o <<2, 0, 0, 0>> \o AttrMap \o AttrHigh

\* No dependency, one attribute: the end-to-end scenario.
HeaderTailOne == <<0, 0, 0, 0>> \o <<1, 0, 0, 0>> \o AttrMap

\* b'XXXX'
BadMagic == <<88, 88, 88, 88>>

HeaderBuffers ==
  Prefixes(HeaderFixed(MapMagic, GameMagic) \o HeaderTail)
    \cup Prefixes(HeaderFixed(MapMagic, GameMagic) \o HeaderTailOne)
    \cup {HeaderFixed(BadMagic, GameMagic) \o HeaderTailOne,
          HeaderFixed(MapMagic, BadMagic) \o HeaderTailOne}

BuffersFor(name) ==
  CASE name \in {"UInt32Field", "EncodedList"} -> {d \in RawBuffers : SmallCount(d)}
    [] name = "AttributeRecord" ->
         Prefixes(AttrMap \o AttrHigh) \cup Prefixes(AttrHigh \o AttrMap)
    [] name = "DocumentHeader" -> HeaderBuffers
    [] OTHER -> RawBuffers

\* Text: NUL, "a", a character of the upper half of the code page (encoded
\* as byte 128), and U+0080, which the code page does not hold.
Chars == {0, 97, 199, 128}

Strings == SeqsUpTo(Chars, MaxStr)

Locales == {<<101, 110, 85, 83>>, <<97, 98, 99>>, <<97, 98, 99, 100, 101>>, <<>>}

IntValues == {0, 1, 255, 256, 65535, 65536, 65537, 16777216, 2147483647}

AttributeRecords == [key : Strings, locale : Locales, value : Strings]

HeaderRecord(map_magic, unk4, dependencies, attribs) ==
  [map_magic |-> map_magic, unk1 |-> <<8, 0, 0, 0>>, game_magic |-> GameMagic,
   unk2 |-> <<8, 0, 0, 0>>, unk3 |-> <<225, 56, 1, 0, 225, 56, 1, 0>>,
   unk4 |-> unk4, dependencies |-> dependencies, attribs |-> attribs]

HeaderRecords ==
  {HeaderRecord(m, [i \in 1..20 |-> 0], d, a) :
     m \in {MapMagic, BadMagic, MapMagic \o <<0>>},
     d \in {<<>>, <<<<97>>, <<98, 99>>>>, <<<<97, 199>>>>},
     a \in {<<>>,
            <<[key |-> <<109, 97, 112>>, locale |-> <<101, 110, 85, 83>>,
               value |-> <<116, 101, 115, 116>>]>>,
            <<[key |-> <<199>>, locale |-> <<97, 98, 99>>, value |-> <<>>],
              [key |-> <<>>, locale |-> <<101, 110, 85, 83>>, value |-> <<97>>]>>}}
    \cup {HeaderRecord(<<72, 50>>, [i \in 1..20 |-> 0], <<>>, <<>>),
          HeaderRecord(MapMagic, [i \in 1..19 |-> 0], <<<<97>>>>, <<>>)}

ValuesFor(name) ==
  CASE name = "ByteArrayField" -> RawBuffers
    [] name \in {"UInt16Field", "UInt32Field"} -> IntValues
    [] name \in {"ZStringField", "EncodedString"} -> Strings
    [] name = "ReverseFixedStringField" -> Locales \cup Strings
    [] name = "EncodedList" -> SeqsUpTo(Strings, 2)
    [] name = "AttributeRecord" -> AttributeRecords
    [] name = "DocumentHeader" -> HeaderRecords

\* -------------------------------------------------------------------- state

VARIABLES
  fld,     \* the field under test
  dir,     \* "bytes": deserialize then serialize; "value": the reverse
  pc,      \* "start", "half", "end"
  input,   \* the buffer (dir = "bytes") or the value (dir = "value")
  dres,    \* what deserialize returned
  sres,    \* what serialize returned
  length,  \* the length attribute of each dynamic field instance (shared)
  th,      \* the frames of each thread's DocumentHeaderSerializer call
  exclusive \* whether callers mutually exclude their decode calls

codec == <<fld, dir, pc, input, dres, sres>>

machine == <<length, th, exclusive>>

vars == <<fld, dir, pc, input, dres, sres, length, th, exclusive>>

\* The dynamic field instances of the two schemas, named by the schema field
\* whose EncodedLengthField wraps them.  The descriptors are class attributes,
\* so every DocumentHeaderSerializer object shares them.
Slots == {"dependencies", "attribs", "key", "value"}

Threads == {1, 2}

NoRecord == [some |-> FALSE, attrs |-> <<>>, offset |-> 0]

NoList == [some |-> FALSE]

NotRun == [ok |-> FALSE, err |-> "not run"]

\* A thread outside any call.  The frames: Serializer.deserialize of the
\* header (data, offset, attrs, fi), EncodedLengthField.deserialize (eoff),
\* DynamicListField.deserialize (k, i, loff, elems), Serializer.deserialize of
\* one attribute (ai, aoff, aattrs) and its EncodedLengthField (aeoff).
\* Observations: starts and lens (where each element decode began and what it
\* consumed), lret (the last list return), log (the decode calls made),
\* stale (a slot held another length than the one this call assigned).
IdleThread ==
  [pc |-> "idle", data |-> <<>>, offset |-> 0, attrs |-> <<>>, fi |-> 0,
   eoff |-> 0, k |-> 0, i |-> 0, loff |-> 0, elems |-> <<>>,
   ai |-> 0, aoff |-> 0, aattrs |-> <<>>, aeoff |-> 0,
   ret |-> NoRecord, out |-> NotRun,
   starts |-> <<>>, lens |-> <<>>, lret |-> NoList, log |-> <<>>, stale |-> FALSE]

\* length = 0 is the class attribute of DynamicStringField and DynamicListField.
InitMachine ==
  /\ length = [s \in Slots |-> 0]
  /\ th = [t \in Threads |-> IdleThread]
  /\ exclusive = FALSE

InitCodec ==
  /\ fld = "ByteArrayField"
  /\ dir = "bytes"
  /\ pc = "start"
  /\ input = <<>>
  /\ dres = NotRun
  /\ sres = NotRun

Init ==
  /\ fld \in FieldNames
  /\ dir \in {"bytes", "value"}
  /\ pc = "start"
  /\ input \in (IF dir = "bytes" THEN BuffersFor(fld) ELSE ValuesFor(fld))
  /\ dres = NotRun
  /\ sres = NotRun
  /\ InitMachine

\* field.deserialize(attributes, data): of the buffer, or of what serialize
\* produced.
Deserialize ==
  /\ \/ dir = "bytes" /\ pc = "start" /\ dres' = Field_deserialize(FieldOf(fld), input)
     \/ dir = "value" /\ pc = "half" /\ sres.ok
          /\ dres' = Field_deserialize(FieldOf(fld), sres.bytes)
  /\ pc' = IF pc = "start" THEN "half" ELSE "end"
  /\ UNCHANGED <<fld, dir, input, sres, machine>>

\* field.serialize(obj): of the value, or of what deserialize returned.
Serialize ==
  /\ \/ dir = "value" /\ pc = "start" /\ sres' = Field_serialize(FieldOf(fld), input)
     \/ dir = "bytes" /\ pc = "half" /\ dres.ok
          /\ sres' = Field_serialize(FieldOf(fld), dres.value)
  /\ pc' = IF pc = "start" THEN "half" ELSE "end"
  /\ UNCHANGED <<fld, dir, input, dres, machine>>

Next == Deserialize \/ Serialize

Spec == Init /\ [][Next]_vars

\* ------------------------------------------- a decode call, statement by statement

TopFields == DocumentHeaderSerializer

AttrFields == DocumentHeaderAttributeSerializer

\* Mutant: a call counts as over between a length assignment and the decode
\* that reads it.
BusyOutsideAssignment(T) == T.pc \in {"field", "elem", "afield"}

\* A decode call is under way from its entry to its return or raise.
Busy(T) == T.pc \in {"field", "list", "elem", "afield", "astr"}

\* The discipline of callers that share descriptors: no decode call starts
\* while another is under way.
MayEnter(t) == exclusive => \A u \in Threads \ {t} : ~Busy(th[u])

\* Mutant: the assignment is left out.
AssignLengthSkipped(slots, slot, value) == slots

\* Mutant: the length is assigned only while the slot holds its default.
AssignLengthOnce(slots, slot, value) ==
  IF slots[slot] = 0 THEN [slots EXCEPT ![slot] = value] ELSE slots

\* self.element_field.length = length
AssignLength(slots, slot, value) == [slots EXCEPT ![slot] = value]

\* Mutant: the loop stops one iteration early.
ListDoneOffByOne(i, k) == i >= k - 1

\* for _ in range(self.length): no iteration is left.
ListDone(i, k) == i >= k

Logged(T, e) == [T EXCEPT !.log = Append(@, e)]

\* An exception leaves every frame of the call: nothing of it is returned.
Raised(T) ==
  [IdleThread EXCEPT !.pc = "raised", !.data = T.data, !.log = T.log,
                     !.stale = T.stale]

\* data[offset:] handed to the field, data[offset:] to the list element field.
FieldData(T) == Drop(T.data, T.offset)

ListData(T) == Drop(FieldData(T), T.eoff)

AttrData(T) == Drop(ListData(T), T.loff)

\* Serializer.deserialize, the loop body: attrs[name], field_length =
\* field.deserialize(...); offset += field_length.  No validator is called.
FieldResult(T, name, r) ==
  IF ~r.ok THEN Raised(T)
  ELSE [T EXCEPT !.attrs = @ @@ (name :> r.value), !.offset = @ + r.n, !.fi = @ + 1]

\* Mutant: a failed element decode is skipped and the loop goes on.
ElementResultSwallowed(T, r) ==
  IF ~r.ok THEN [T EXCEPT !.i = @ + 1, !.lens = Append(@, 0), !.pc = "elem"]
  ELSE [T EXCEPT !.elems = Append(@, r.value), !.loff = @ + r.n, !.i = @ + 1,
                 !.lens = Append(@, r.n), !.pc = "elem",
                 !.ai = 0, !.aoff = 0, !.aattrs = <<>>, !.aeoff = 0]

\* DynamicListField.deserialize, the loop body after the element decode:
\* elements.append(element); offset += element_length.  A raise leaves the loop.
ElementResult(T, r) ==
  IF ~r.ok THEN Raised(T)
  ELSE [T EXCEPT !.elems = Append(@, r.value), !.loff = @ + r.n, !.i = @ + 1,
                 !.lens = Append(@, r.n), !.pc = "elem",
                 !.ai = 0, !.aoff = 0, !.aattrs = <<>>, !.aeoff = 0]

\* Serializer.deserialize of one attribute, the loop body.
AttrResult(T, name, r, consumed) ==
  IF ~r.ok THEN Raised(T)
  ELSE [T EXCEPT !.aattrs = @ @@ (name :> r.value), !.aoff = @ + consumed,
                 !.ai = @ + 1, !.aeoff = 0, !.pc = "afield"]

\* DocumentHeaderSerializer().deserialize({}, data): attrs = {}, offset = 0.
Call(t, b) ==
  /\ th[t].pc \in {"idle", "serialized", "raised"}
  /\ MayEnter(t)
  /\ th' = [th EXCEPT ![t] = [IdleThread EXCEPT !.pc = "field", !.data = b, !.fi = 1]]
  /\ UNCHANGED <<length, exclusive, codec>>

\* A field of the header that is no EncodedLengthField.
DeserializeField(t) ==
  LET T == th[t] IN
  /\ T.pc = "field" /\ T.fi <= Len(TopFields)
  /\ TopFields[T.fi].field.kind # "EncodedLengthField"
  /\ LET f == TopFields[T.fi]
         r == Field_deserialize(f.field, FieldData(T))
     IN  th' = [th EXCEPT ![t] =
                  FieldResult(Logged(T, [ev |-> "leaf", name |-> f.name, ok |-> r.ok]),
                              f.name, r)]
  /\ UNCHANGED <<length, exclusive, codec>>

\* EncodedLengthField.deserialize of a header field, up to the assignment.
DeserializePrefix(t) ==
  LET T == th[t] IN
  /\ T.pc = "field" /\ T.fi <= Len(TopFields)
  /\ TopFields[T.fi].field.kind = "EncodedLengthField"
  /\ LET f == TopFields[T.fi]
         p == Field_deserialize(f.field.length_field, FieldData(T))
     IN  /\ length' = AssignLength(length, f.name, p.value)
         /\ th' = [th EXCEPT ![t] =
                     [Logged(T, [ev |-> "prefix", slot |-> f.name, L |-> p.value,
                                 ok |-> TRUE])
                        EXCEPT !.eoff = p.n, !.pc = "list",
                               !.stale = @ \/ length[f.name] # p.value]]
  /\ UNCHANGED <<exclusive, codec>>

\* DynamicListField.deserialize: offset = 0, elements = [], range(self.length).
ListBegin(t) ==
  LET T == th[t] IN
  /\ T.pc = "list"
  /\ LET slot == TopFields[T.fi].name
     IN  th' = [th EXCEPT ![t] =
                  [Logged(T, [ev |-> "call", slot |-> slot, used |-> length[slot],
                              ok |-> TRUE])
                     EXCEPT !.k = length[slot], !.i = 0, !.loff = 0, !.elems = <<>>,
                            !.starts = <<>>, !.lens = <<>>, !.pc = "elem"]]
  /\ UNCHANGED <<length, exclusive, codec>>

\* One iteration over an element field that is no SerializerField.
ListElement(t) ==
  LET T == th[t] IN
  /\ T.pc = "elem" /\ ~ListDone(T.i, T.k)
  /\ TopFields[T.fi].field.element_field.element_field.kind # "SerializerField"
  /\ LET ef == TopFields[T.fi].field.element_field.element_field
         r  == Field_deserialize(ef, Drop(ListData(T), T.loff))
     IN  th' = [th EXCEPT ![t] =
                  ElementResult(
                    [Logged(T, [ev |-> "leaf", name |-> TopFields[T.fi].name,
                                ok |-> r.ok])
                       EXCEPT !.starts = Append(@, T.loff)], r)]
  /\ UNCHANGED <<length, exclusive, codec>>

\* One iteration over a SerializerField: Serializer.deserialize of the
\* attribute starts.
AttrBegin(t) ==
  LET T == th[t] IN
  /\ T.pc = "elem" /\ ~ListDone(T.i, T.k)
  /\ TopFields[T.fi].field.element_field.element_field.kind = "SerializerField"
  /\ th' = [th EXCEPT ![t] =
              [T EXCEPT !.starts = Append(@, T.loff), !.ai = 1, !.aoff = 0,
                        !.aattrs = <<>>, !.pc = "afield"]]
  /\ UNCHANGED <<length, exclusive, codec>>

\* EncodedLengthField.deserialize of an attribute field, up to the assignment.
AttrPrefix(t) ==
  LET T == th[t] IN
  /\ T.pc = "afield" /\ T.ai <= Len(AttrFields)
  /\ AttrFields[T.ai].field.kind = "EncodedLengthField"
  /\ LET f == AttrFields[T.ai]
         p == Field_deserialize(f.field.length_field, Drop(AttrData(T), T.aoff))
     IN  /\ length' = AssignLength(length, f.name, p.value)
         /\ th' = [th EXCEPT ![t] =
                     [Logged(T, [ev |-> "prefix", slot |-> f.name, L |-> p.value,
                                 ok |-> TRUE])
                        EXCEPT !.aeoff = p.n, !.pc = "astr",
                               !.stale = @ \/ length[f.name] # p.value]]
  /\ UNCHANGED <<exclusive, codec>>

\* DynamicStringField.deserialize: mbs = data[:self.length].
AttrString(t) ==
  LET T == th[t] IN
  /\ T.pc = "astr"
  /\ LET f  == AttrFields[T.ai]
         ef == [f.field.element_field EXCEPT !.length = length[f.name]]
         r  == Field_deserialize(ef, Drop(Drop(AttrData(T), T.aoff), T.aeoff))
     IN  th' = [th EXCEPT ![t] =
                  AttrResult(Logged(T, [ev |-> "call", slot |-> f.name,
                                        used |-> length[f.name], ok |-> r.ok]),
                             f.name, r, T.aeoff + r.n)]
  /\ UNCHANGED <<length, exclusive, codec>>

\* An attribute field that is no EncodedLengthField.
AttrField(t) ==
  LET T == th[t] IN
  /\ T.pc = "afield" /\ T.ai <= Len(AttrFields)
  /\ AttrFields[T.ai].field.kind # "EncodedLengthField"
  /\ LET f == AttrFields[T.ai]
         r == Field_deserialize(f.field, Drop(AttrData(T), T.aoff))
     IN  th' = [th EXCEPT ![t] =
                  AttrResult(Logged(T, [ev |-> "leaf", name |-> f.name, ok |-> r.ok]),
                             f.name, r, r.n)]
  /\ UNCHANGED <<length, exclusive, codec>>

\* Serializer.deserialize of the attribute returns attrs, offset to the list.
AttrReturn(t) ==
  LET T == th[t] IN
  /\ T.pc = "afield" /\ T.ai > Len(AttrFields)
  /\ th' = [th EXCEPT ![t] = ElementResult(T, Ok(T.aattrs, T.aoff, FALSE))]
  /\ UNCHANGED <<length, exclusive, codec>>

\* The list returns elements, offset; EncodedLengthField returns element,
\* offset + element_length; the header's loop stores it.
ListReturn(t) ==
  LET T == th[t] IN
  /\ T.pc = "elem" /\ ListDone(T.i, T.k)
  /\ th' = [th EXCEPT ![t] =
              [FieldResult(T, TopFields[T.fi].name, Ok(T.elems, T.eoff + T.loff, FALSE))
                 EXCEPT !.pc = "field", !.eoff = 0, !.k = 0, !.i = 0, !.loff = 0,
                        !.elems = <<>>, !.starts = <<>>, !.lens = <<>>,
                        !.lret = [some |-> TRUE, slot |-> TopFields[T.fi].name,
                                  k |-> T.k, elements |-> T.elems, n |-> T.loff,
                                  starts |-> T.starts, lens |-> T.lens,
                                  base |-> T.offset, eoff |-> T.eoff]]]
  /\ UNCHANGED <<length, exclusive, codec>>

\* return attrs, offset
Return(t) ==
  LET T == th[t] IN
  /\ T.pc = "field" /\ T.fi > Len(TopFields)
  /\ th' = [th EXCEPT ![t] =
              [T EXCEPT !.pc = "done",
                        !.ret = [some |-> TRUE, attrs |-> T.attrs, offset |-> T.offset]]]
  /\ UNCHANGED <<length, exclusive, codec>>

\* write_document_header: DocumentHeaderSerializer().serialize(attrs).
SerializeRecord(t) ==
  LET T == th[t] IN
  /\ T.pc = "done"
  /\ th' = [th EXCEPT ![t] =
              [T EXCEPT !.pc = "serialized",
                        !.out = Serializer_serialize(TopFields, T.ret.attrs)]]
  /\ UNCHANGED <<length, exclusive, codec>>

Step(t) ==
  \/ DeserializeField(t) \/ DeserializePrefix(t) \/ ListBegin(t) \/ ListElement(t)
  \/ AttrBegin(t) \/ AttrPrefix(t) \/ AttrString(t) \/ AttrField(t) \/ AttrReturn(t)
  \/ ListReturn(t) \/ Return(t) \/ SerializeRecord(t)

\* One caller, any number of calls one after the other on the same descriptors.
InitDecode == InitCodec /\ InitMachine

NextDecode == (\E b \in HeaderBuffers : Call(1, b)) \/ Step(1)

SpecDecode == InitDecode /\ [][NextDecode]_vars

\* Two callers that share the descriptors, with or without mutual exclusion.
ConcBuffers ==
  {HeaderFixed(MapMagic, GameMagic) \o <<1, 0, 0, 0, 97, 0>> \o tail :
     tail \in {<<1, 0, 0, 0>> \o AttrMap, <<1, 0, 0, 0>> \o AttrHigh, <<0, 0, 0, 0>>}}

InitConc ==
  /\ InitCodec
  /\ length = [s \in Slots |-> 0]
  /\ th = [t \in Threads |-> IdleThread]
  /\ exclusive \in BOOLEAN

NextConc == \E t \in Threads : (\E b \in ConcBuffers : Call(t, b)) \/ Step(t)

SpecConc == InitConc /\ [][NextConc]_vars

\* ------------------------------------------------------- round trip (C1, C2)

\* C1: round-trip law, bytes first.  For every field kind and the whole
\* DocumentHeaderSerializer, and every legally decodable buffer b (one that
\* holds every byte the decode reads), when deserialize(b) returns
\* (value, bytesConsumed) then serialize(value) = b[:bytesConsumed].
C1_RoundTripBytesFirst ==
  (dir = "bytes" /\ pc = "end" /\ dres.ok /\ ~dres.short)
    => (sres.ok /\ sres.bytes = Take(input, dres.n))

\* The end-to-end scenario and a two-attribute header have been decoded from
\* complete buffers and encoded again.
C1_Witness ==
  /\ dir = "bytes" /\ pc = "end" /\ fld = "DocumentHeader"
  /\ dres.ok /\ ~dres.short /\ sres.ok
  /\ Len(dres.value["attribs"]) = 2
  /\ dres.value["attribs"][1]["locale"] = <<101, 110, 85, 83>>
  /\ dres.value["attribs"][2]["key"] = <<199>>
  /\ dres.n = Len(input)

\* The legal values of a field's value type: integers that fit the width,
\* text of the code page, lengths and counts that fit their prefix, records
\* that hold every field, a byte array or fixed string no longer than the
\* field, and exactly as long (exact) where another field or element follows.
RECURSIVE LegalValue(_, _, _)
LegalValue(f, v, exact) ==
  CASE f.kind = "ByteArrayField" ->
         IF exact THEN Len(v) = f.length ELSE Len(v) <= f.length
    [] f.kind = "UInt16Field" -> v >= 0 /\ ToBytes(v, f.length).ok
    [] f.kind \in {"ZStringField", "DynamicStringField"} ->
         \A i \in 1..Len(v) : Encodable437(v[i])
    [] f.kind = "ReverseFixedStringField" ->
         /\ \A i \in 1..Len(v) : Encodable437(v[i])
         /\ IF exact THEN Len(v) = f.length ELSE Len(v) <= f.length
    [] f.kind = "DynamicListField" ->
         \A i \in 1..Len(v) : LegalValue(f.element_field, v[i], TRUE)
    [] f.kind = "EncodedLengthField" ->
         /\ ToBytes(Len(v), f.length_field.length).ok
         /\ LegalValue(f.element_field, v, exact)
    [] f.kind = "SerializerField" ->
         \A i \in 1..Len(f.serializer) :
            /\ f.serializer[i].name \in DOMAIN v
            /\ LegalValue(f.serializer[i].field, v[f.serializer[i].name], TRUE)

\* No NUL character in any text that a ZStringField writes.
RECURSIVE NulFree(_, _)
NulFree(f, v) ==
  CASE f.kind = "ZStringField" -> \A i \in 1..Len(v) : v[i] # 0
    [] f.kind = "DynamicListField" -> \A i \in 1..Len(v) : NulFree(f.element_field, v[i])
    [] f.kind = "EncodedLengthField" -> NulFree(f.element_field, v)
    [] f.kind = "SerializerField" ->
         \A i \in 1..Len(f.serializer) :
            NulFree(f.serializer[i].field, v[f.serializer[i].name])
    [] OTHER -> TRUE

Representable(f, v) == LegalValue(f, v, FALSE) /\ NulFree(f, v)

\* C2 as amended: round-trip law, value first, for every legal value whose
\* NUL-terminated texts hold no NUL character: deserialize(serialize(v))
\* returns v.
C2_RoundTripValueFirst ==
  (dir = "value" /\ pc # "start" /\ Representable(FieldOf(fld), input))
    => /\ sres.ok
       /\ pc = "end" => (dres.ok /\ dres.value = input)

\* A record with a text of the upper half of the code page and a reversed
\* locale has been encoded and decoded back.
C2_Witness ==
  /\ dir = "value" /\ pc = "end" /\ fld = "AttributeRecord"
  /\ Representable(FieldOf(fld), input)
  /\ input["key"] = <<199, 97>> /\ input["value"] = <<97>>
  /\ sres.bytes = <<2, 0, 128, 97>> \o <<83, 85, 110, 101>> \o <<1, 0, 97>>
  /\ dres.ok /\ dres.value = input

\* C2 as stated: for every legal value of the field's value type (a byte
\* sequence, a non-negative integer, any text, a list, a record),
\* deserialize(serialize(v)) returns v.
C2_Original ==
  (dir = "value" /\ pc # "start" /\ LegalValue(FieldOf(fld), input, FALSE))
    => /\ sres.ok
       /\ pc = "end" => (dres.ok /\ dres.value = input)

\* --------------------------------------------------------- bounds check (C4)

\* C4: a primitive field given fewer bytes than its length fails instead of
\* returning a value, and a successful decode never reports more consumed
\* bytes than the buffer holds.
C4_BoundsChecked ==
  (dir = "bytes" /\ pc # "start")
    => /\ (fld \in {"ByteArrayField", "UInt16Field", "UInt32Field"}
             /\ Len(input) < FieldOf(fld).length) => ~dres.ok
       /\ dres.ok => dres.n <= Len(input)

\* ------------------------------------------------- length-prefixed fidelity (C5)

\* C5: serialize of a string of length L that fits the prefix writes the
\* little-endian prefix L followed by the element's encoding, and deserialize
\* of a buffer whose prefix decodes to L consumes prefix width + L bytes.
C5_LengthPrefixedFidelity ==
  /\ (fld = "EncodedString" /\ dir = "value" /\ pc # "start" /\ sres.ok)
       => /\ FromBytes(Take(sres.bytes, 2)) = Len(input)
          /\ Bytes(Drop(sres.bytes, 2)) = DynamicStringField_serialize(input)
  /\ (fld = "EncodedString" /\ dir = "bytes" /\ pc # "start" /\ Len(input) >= 2
        /\ dres.ok)
       => dres.n = 2 + FromBytes(Take(input, 2))

\* -------------------------------------------------- validator short-circuit (C3)

\* C3: a header whose map_magic or game_magic bytes differ from the expected
\* magic is rejected by the field's validator: the decode returns no record.
C3_ValidatorShortCircuit ==
  \A t \in Threads :
    th[t].ret.some =>
      \A i \in 1..Len(TopFields) :
        Field_validate(TopFields[i].field, th[t].ret.attrs[TopFields[i].name]) = "None"

\* ------------------------------------------------------ list count fidelity (C6)

RECURSIVE Sum(_)
Sum(q) == IF q = <<>> THEN 0 ELSE Head(q) + Sum(Tail(q))

\* The element field of the list held by the header field named slot.
ElementFieldOf(slot) ==
  (CHOOSE f \in {TopFields[i] : i \in 1..Len(TopFields)} : f.name = slot)
    .field.element_field.element_field

\* C6: a DynamicListField with governing count k invokes its element field
\* exactly k times, each on the slice that starts where the previous element
\* ended, and returns the k elements in buffer order with the sum of their
\* lengths as consumed length; for k = 0 it returns the empty list and 0
\* without invoking the element field.
C6_ListCountFidelity ==
  \A t \in Threads :
    th[t].lret.some =>
      LET r == th[t].lret
          listdata == Drop(Drop(th[t].data, r.base), r.eoff)
      IN  /\ Len(r.elements) = r.k /\ Len(r.starts) = r.k /\ Len(r.lens) = r.k
          /\ r.n = Sum(r.lens)
          /\ \A j \in 1..Len(r.starts) :
               /\ r.starts[j] = IF j = 1 THEN 0 ELSE r.starts[j - 1] + r.lens[j - 1]
               /\ LET e == Field_deserialize(ElementFieldOf(r.slot),
                                             Drop(listdata, r.starts[j]))
                  IN  e.ok /\ j <= Len(r.elements) /\ r.elements[j] = e.value
                        /\ j <= Len(r.lens) /\ r.lens[j] = e.n
          /\ r.k = 0 => (r.elements = <<>> /\ r.n = 0 /\ r.starts = <<>>)

\* The attribs list of two records has returned: 15 and 9 bytes.
C6_Witness ==
  /\ th[1].lret.some /\ th[1].lret.slot = "attribs"
  /\ th[1].lret.k = 2 /\ th[1].lret.starts = <<0, 15>> /\ th[1].lret.n = 24
  /\ "dependencies" \in DOMAIN th[1].attrs
  /\ th[1].attrs["dependencies"] = <<<<97>>, <<98, 99>>>>

\* ------------------------------------------------------ all or nothing (C7)

\* C7: the first field whose decode fails aborts the record decode at that
\* field: no field is decoded after it and the caller gets an error, never a
\* partly filled record.
C7_AllOrNothing ==
  \A t \in Threads :
    LET T == th[t] IN
    /\ \A j \in 1..(Len(T.log) - 1) : T.log[j].ok
    /\ (Len(T.log) > 0 /\ ~T.log[Len(T.log)].ok)
         => (T.pc = "raised" /\ ~T.ret.some /\ T.attrs = <<>> /\ T.elems = <<>>)
    /\ T.pc = "raised" => (Len(T.log) > 0 /\ ~T.log[Len(T.log)].ok)

\* The second dependency has no terminator: the decode raised there, after
\* the six fixed fields and the first dependency.
C7_Witness ==
  /\ th[1].pc = "raised"
  /\ Len(th[1].log) = 10
  /\ th[1].log[9] = [ev |-> "leaf", name |-> "dependencies", ok |-> TRUE]
  /\ th[1].log[10] = [ev |-> "leaf", name |-> "dependencies", ok |-> FALSE]

\* ------------------------------------------------ length before decode (C8)

\* C8: in a single-threaded decode pass every deserialize of a
\* DynamicStringField or DynamicListField is immediately preceded by the
\* assignment of the length decoded from the prefix of the same
\* EncodedLengthField call, and reads that length.
C8_LengthAssignedBeforeDecode ==
  LET T == th[1] IN
  /\ \A j \in 1..Len(T.log) :
       T.log[j].ev = "call" =>
         /\ j > 1
         /\ T.log[j - 1].ev = "prefix"
         /\ T.log[j - 1].slot = T.log[j].slot
         /\ T.log[j - 1].L = T.log[j].used
  /\ T.pc \in {"list", "astr"} =>
       /\ Len(T.log) > 0
       /\ T.log[Len(T.log)].ev = "prefix"
       /\ length[T.log[Len(T.log)].slot] = T.log[Len(T.log)].L

\* A pass over two attributes, on descriptors that held other lengths: the
\* key of the first was decoded with length 3, the key of the second with 1.
C8_Witness ==
  /\ th[1].pc = "done" /\ th[1].stale
  /\ \E j \in 1..Len(th[1].log) : \E h \in 1..Len(th[1].log) :
       /\ j < h
       /\ th[1].log[j] = [ev |-> "call", slot |-> "key", used |-> 3, ok |-> TRUE]
       /\ th[1].log[h] = [ev |-> "call", slot |-> "key", used |-> 1, ok |-> TRUE]

\* ----------------------------------------------- shared length slot (C9, C10)

\* What the call returns when nothing else touches the descriptors.
Alone(data) == Serializer_deserialize(TopFields, data)

AsAlone(T) ==
  /\ T.pc \in {"done", "serialized"} =>
       /\ Alone(T.data).ok
       /\ T.ret.attrs = Alone(T.data).value
       /\ T.ret.offset = Alone(T.data).n
  /\ T.pc = "raised" => ~Alone(T.data).ok

\* C9: when decode calls that share descriptors are mutually excluded, every
\* call returns what it returns alone; without exclusion a call can read a
\* length another call assigned (the witness).
C9_ExclusionRestoresResults ==
  exclusive => \A t \in Threads : AsAlone(th[t])

\* Without exclusion: a call read a length that is not the one its own prefix
\* held, and returned a record other than the one it returns alone.
C9_Witness ==
  /\ ~exclusive
  /\ \E t \in Threads :
       /\ th[t].pc = "done"
       /\ Alone(th[t].data).ok
       /\ th[t].ret.attrs # Alone(th[t].data).value
       /\ \E j \in 2..Len(th[t].log) :
            /\ th[t].log[j].ev = "call"
            /\ th[t].log[j - 1].ev = "prefix"
            /\ th[t].log[j - 1].L # th[t].log[j].used

C10_Step ==
  /\ AsAlone(th'[1])
  /\ (th[1].pc = "done" /\ th'[1].pc = "serialized") =>
       /\ length' = length
       /\ th'[1].out = Serializer_serialize(TopFields, th[1].ret.attrs)

\* C10: over any sequence of calls on the same descriptors, what each
\* deserialize returns depends on its buffer alone, whatever lengths earlier
\* calls left in the slots; serialize depends on the record alone and leaves
\* the slots as they are.
C10_StatelessReuse == [][C10_Step]_vars

\* A header of two dependencies and two attributes has been decoded on
\* descriptors that held other lengths, and encoded back to the same bytes.
C10_Witness ==
  /\ th[1].pc = "serialized" /\ th[1].stale
  /\ Len(th[1].ret.attrs["attribs"]) = 2
  /\ th[1].out.ok /\ th[1].out.bytes = th[1].data

=============================================================================
